---------------------------- MODULE Spec2Model ----------------------------
(***************************************************************************)
(* Model of ZksolcCompilerDownloader                                       *)
(* (packages/hardhat-zksync-solc/src/compile/downloader.ts).               *)
(*                                                                         *)
(* Callers are the asynchronous call chains of one Node.js process.  A     *)
(* value of pc[p] names the awaited operation of caller p that is in       *)
(* flight; the action of the same name is the completion of that           *)
(* operation together with the synchronous code that follows it up to the  *)
(* next await.                                                             *)
(*                                                                         *)
(* Version strings are modelled by their rank in semantic-version order    *)
(* (1..MaxVersion); the alias "latest" is the value LatestAlias, which is  *)
(* no semantic version.  A manifest file that exists holds well-formed     *)
(* JSON with both fields.                                                  *)
(***************************************************************************)
EXTENDS Integers, Sequences, FiniteSets, TLC

\* ------------------------------------------------------------------ bounds
NumCallers == 2
MaxVersion == 3
MaxAge == 2

\* -------------------------------------------------------------- constants
\* the literal 'latest' of line 54, which is not a semantic version
LatestAlias == 0
\* _compilerVersionInfoCachePeriodMs, in units of the model's clock
CachePeriod == 1

Callers == 1..NumCallers
Versions == 1..MaxVersion
Requests == Versions \cup {LatestAlias}
Dirs == {"d1", "d2"}
URLs == {"https://a"}
ConfigPaths == {"zksolc"} \cup URLs
NoVersion == -1

\* CompilerVersionInfo | undefined
Undefined == [defined |-> FALSE, latest |-> 0, minVersion |-> 0]
VersionInfo(l, m) == [defined |-> TRUE, latest |-> l, minVersion |-> m]

\* The manifest file compilerVersionInfo.json.  The process has at most one
\* session and the session's directory never changes, so one manifest path is
\* ever read or written: manifestFile is the file at that path.
NoManifest == [exists |-> FALSE, latest |-> 0, minVersion |-> 0, age |-> 0]
ManifestFile(l, m, a) == [exists |-> TRUE, latest |-> l, minVersion |-> m, age |-> a]
ManifestFiles ==
    {NoManifest} \cup
    {ManifestFile(l, m, a) : l \in Versions, m \in Versions, a \in 0..MaxAge}

\* a binary file: its permission bits and what running it with --version gives
\* (exit status; the version matched in stdout, NoVersion when none matches)
NoBinary == [exists |-> FALSE, mode |-> "none", status |-> 0, out |-> NoVersion]
BinaryContents ==
    {[status |-> s, out |-> o] : s \in {0, 1}, o \in Versions \cup {NoVersion}}

VARIABLES
    instance,      \* ZksolcCompilerDownloader._instance
    returned,      \* some caller holds a reference to the instance
    mutexCount,    \* free permits of _mutex
    mutexQueue,    \* the tasks waiting for _mutex, oldest first
    manifestFile,  \* the file at _getCompilerVersionInfoPath() of the session
    binFile,       \* per binary path: the binary file
    pc,            \* per caller: the awaited operation in flight
    reqVersion,    \* per caller: the version parameter of its factory call
    info,          \* per caller: the local compilerVersionInfo
    log,           \* per caller: what its current call has done, in order
    outcome        \* per caller: how its last call ended

vars == <<instance, returned, mutexCount, mutexQueue, manifestFile, binFile,
          pc, reqVersion, info, log, outcome>>

NoInstance == [set |-> FALSE, version |-> 0, configPath |-> "", dir |-> ""]
\* how a call ended; ready: the binary was in place and passed verification
\* when the call's sequence started; message: the message of the error thrown
\* to the caller (for the errors built from a constant: the constant's name);
\* cause: the message of the error that was caught, where one was caught;
\* before: the binaries on disk, with their modes, when the call's sequence
\* started; args: the arguments of a factory call; path, exists: what
\* getCompilerPath() and isCompilerDownloaded() have computed
NoOutcome == [op |-> "none", status |-> "none", kind |-> "none", ready |-> FALSE,
              version |-> NoVersion, minVersion |-> NoVersion, latest |-> NoVersion,
              message |-> "", cause |-> <<>>, before |-> {},
              args |-> <<>>, path |-> "", exists |-> FALSE]
Ok(op) == [NoOutcome EXCEPT !.op = op, !.status = "ok"]
Error(op, kind) ==
    [NoOutcome EXCEPT !.op = op, !.status = "error", !.kind = kind, !.message = kind]
\* COMPILER_VERSION_RANGE_ERROR(version, minVersion, latest)
RangeError(op, v, i) ==
    [Error(op, "VERSION_RANGE") EXCEPT
        !.version = v, !.minVersion = i.minVersion, !.latest = i.latest]

\* The message of an error thrown by _downloadFunction, as its lines in order
\* (the message is these lines joined by "\n").
TransportMessages ==
    {<<"ETIMEDOUT">>, <<"ECONNRESET", "at TLSSocket">>, <<"", "ETIMEDOUT">>}

\* ------------------------------------------------------------ pure helpers
isURL(configPath) == configPath \in URLs

saltFromUrl(url) == "sha1(" \o url \o ")"

IsSemver(v) == v \in Versions

isVersionInRange(version, versionInfo) ==
    version >= versionInfo.minVersion /\ version <= versionInfo.latest

\* the version string of a version of the model
VersionString(v) == IF v = LatestAlias THEN "latest" ELSE "1.3." \o ToString(v)

Session(version, configPath, dir) ==
    [set |-> TRUE, version |-> version, configPath |-> configPath, dir |-> dir]

getCompilerPath_DashAlways(inst) ==
    LET salt == IF isURL(inst.configPath) THEN saltFromUrl(inst.configPath) ELSE ""
    IN  inst.dir \o "/zksolc/zksolc-v" \o VersionString(inst.version) \o "-" \o salt

\* lines 84-93; path.join puts "/" between its arguments
getCompilerPath(inst) ==
    LET salt == IF isURL(inst.configPath) THEN saltFromUrl(inst.configPath) ELSE ""
    IN  inst.dir \o "/zksolc/zksolc-v" \o VersionString(inst.version)
            \o (IF salt # "" THEN "-" ELSE "") \o salt

Paths ==
    {getCompilerPath(Session(v, c, d)) : v \in Requests, c \in ConfigPaths, d \in Dirs}

_getCompilerVersionInfo(file) ==
    IF ~file.exists THEN Undefined ELSE VersionInfo(file.latest, file.minVersion)

_shouldDownloadCompilerVersionInfo(file) ==
    IF ~file.exists THEN TRUE ELSE file.age > CachePeriod

\* what a call finds at the manifest path when it reads it, as a log entry
ReadEvent(file) ==
    IF ~file.exists THEN "readAbsent"
    ELSE IF file.age > CachePeriod THEN "readStale" ELSE "readFresh"

RereadEvent(file) == IF file.exists THEN "rereadPresent" ELSE "rereadAbsent"

CheckEvent(file) ==
    IF ~file.exists THEN "checkAbsent"
    ELSE IF file.age > CachePeriod THEN "checkStale" ELSE "checkFresh"

CtorFetchCondition_OnlyWhenPresent(undefined, should) == ~undefined /\ should

\* line 41: the condition under which the factory fetches the manifest
CtorFetchCondition(undefined, should) == undefined \/ should

\* line 120: the condition under which downloadCompiler fetches the manifest
DlFetchCondition(undefined, should) == undefined /\ should

ResolveVersion_RangeFirst(version, i) ==
    IF ~isVersionInRange(version, i)
    THEN [status |-> "error", version |-> version, warn |-> FALSE]
    ELSE IF version = i.latest
         THEN [status |-> "ok", version |-> i.latest, warn |-> FALSE]
         ELSE [status |-> "ok", version |-> version, warn |-> TRUE]

ResolveVersion_NoRangeError(version, i) ==
    IF version = LatestAlias \/ version = i.latest
    THEN [status |-> "ok", version |-> i.latest, warn |-> FALSE]
    ELSE [status |-> "ok", version |-> version, warn |-> TRUE]

ResolveVersion_AlwaysLatest(version, i) ==
    IF version = LatestAlias \/ version = i.latest \/ isVersionInRange(version, i)
    THEN [status |-> "ok", version |-> i.latest, warn |-> FALSE]
    ELSE [status |-> "error", version |-> version, warn |-> FALSE]

\* lines 54-60: the resolution of the requested version against the manifest
ResolveVersion(version, i) ==
    IF version = LatestAlias \/ version = i.latest
    THEN [status |-> "ok", version |-> i.latest, warn |-> FALSE]
    ELSE IF ~isVersionInRange(version, i)
         THEN [status |-> "error", version |-> version, warn |-> FALSE]
         ELSE [status |-> "ok", version |-> version, warn |-> TRUE]

\* lines 133-135: the check of the session's version before a download
DlVersionAccepted(version, i) == isVersionInRange(version, i)

\* what the download function leaves at the binary path, and line 181
WriteBinary(content) ==
    [exists |-> TRUE, mode |-> "rw-r--r--", status |-> content.status, out |-> content.out]

_postProcessCompilerDownload(file) == [file EXCEPT !.mode = "rwxr-xr-x"]

\* line 187: spawnSync(compilerPath, ['--version']); a file that is missing or
\* not executable cannot be spawned: no exit status, no output
SpawnVersion(file) ==
    IF file.exists /\ file.mode = "rwxr-xr-x"
    THEN [status |-> file.status, out |-> file.out]
    ELSE [status |-> NoVersion, out |-> NoVersion]

\* the binaries on disk: their paths and permission bits
Layout(files) == {<<x, files[x].mode>> : x \in {y \in Paths : files[y].exists}}

VerifyResult_IgnoringStatus(file) ==
    LET versionOutput == SpawnVersion(file)
    IN  [error |-> (versionOutput.out = NoVersion), found |-> versionOutput.out]

\* lines 188-199: [error, found]: whether verifyCompiler throws, and the
\* version it has matched in the output
VerifyResult(file) ==
    LET versionOutput == SpawnVersion(file)
    IN  [error |-> (versionOutput.status # 0 \/ versionOutput.out = NoVersion),
         found |-> versionOutput.out]

\* lines 193-199 as the events of a call: the verification, then the advisory
VerifyEvents(version, r) ==
    IF ~r.error /\ version # r.found THEN <<"verify", "warnMismatch">> ELSE <<"verify">>


Init ==
    /\ instance = NoInstance
    /\ returned = FALSE
    /\ mutexCount = 1
    /\ mutexQueue = <<>>
    /\ manifestFile \in ManifestFiles
    /\ binFile = [x \in Paths |-> NoBinary]
    /\ pc = [p \in Callers |-> "idle"]
    /\ reqVersion = [p \in Callers |-> NoVersion]
    /\ info = [p \in Callers |-> Undefined]
    /\ log = [p \in Callers |-> <<>>]
    /\ outcome = [p \in Callers |-> NoOutcome]

\* --------------------------------------- getDownloaderWithVersionValidated
\* The end of a call and the hand-over of its result to the caller are one job
\* of the event loop: a finished call shows at pc = "done", with what it did in
\* log and how it ended in outcome, and Return, the next step, hands over.
Quiet == \A q \in Callers : pc[q] # "done"

At(p, label) == Quiet /\ pc[p] = label

CanCall(p) == At(p, "idle")

Return(p) ==
    /\ pc[p] = "done"
    /\ pc' = [pc EXCEPT ![p] = "idle"]
    /\ reqVersion' = [reqVersion EXCEPT ![p] = NoVersion]
    /\ info' = [info EXCEPT ![p] = Undefined]
    /\ log' = [log EXCEPT ![p] = <<>>]
    /\ outcome' = [outcome EXCEPT ![p] = NoOutcome]
    /\ UNCHANGED <<instance, returned, mutexCount, mutexQueue, manifestFile, binFile>>

\* lines 50-60, run synchronously once the manifest has been consulted
CtorResolve(p, i, lg) ==
    /\ info' = [info EXCEPT ![p] = i]
    /\ pc' = [pc EXCEPT ![p] = "done"]
    /\ IF ~i.defined
       THEN /\ outcome' = [outcome EXCEPT ![p] =
                              [Error("create", "MANIFEST_NOT_FOUND") EXCEPT !.args = outcome[p].args]]
            /\ log' = [log EXCEPT ![p] = lg]
            /\ UNCHANGED <<instance, returned>>
       ELSE LET r == ResolveVersion(reqVersion[p], i)
            IN  IF r.status = "error"
                THEN /\ outcome' = [outcome EXCEPT ![p] =
                                       [RangeError("create", r.version, i) EXCEPT
                                           !.args = outcome[p].args]]
                     /\ log' = [log EXCEPT ![p] = lg]
                     /\ UNCHANGED <<instance, returned>>
                ELSE /\ outcome' = [outcome EXCEPT ![p] =
                                       [Ok("create") EXCEPT !.args = outcome[p].args]]
                     /\ log' = [log EXCEPT ![p] =
                                  IF r.warn THEN Append(lg, "warnBehind") ELSE lg]
                     /\ instance' = IF r.warn THEN instance
                                    ELSE [instance EXCEPT !.version = r.version]
                     /\ returned' = TRUE

GetDownloader_Reconstructing(p, version, configPath, dir) ==
    /\ CanCall(p)
    /\ info' = [info EXCEPT ![p] = Undefined]
    /\ log' = [log EXCEPT ![p] = <<>>]
    /\ IF ~instance.set
       THEN /\ instance' = Session(version, configPath, dir)
            /\ reqVersion' = [reqVersion EXCEPT ![p] = version]
            /\ pc' = [pc EXCEPT ![p] = "ctor_read"]
            /\ outcome' = [outcome EXCEPT ![p] =
                              [NoOutcome EXCEPT !.op = "create",
                                                !.args = <<version, configPath, dir>>]]
            /\ UNCHANGED returned
       ELSE /\ reqVersion' = [reqVersion EXCEPT ![p] = NoVersion]
            /\ pc' = [pc EXCEPT ![p] = "done"]
            /\ outcome' = [outcome EXCEPT ![p] =
                              [Ok("cached") EXCEPT !.args = <<version, configPath, dir>>]]
            /\ returned' = TRUE
            /\ instance' = Session(version, configPath, dir)
    /\ UNCHANGED <<mutexCount, mutexQueue, manifestFile, binFile>>

GetDownloader_Revalidating(p, version, configPath, dir) ==
    /\ CanCall(p)
    /\ info' = [info EXCEPT ![p] = Undefined]
    /\ log' = [log EXCEPT ![p] = <<>>]
    /\ IF ~instance.set
       THEN /\ instance' = Session(version, configPath, dir)
            /\ reqVersion' = [reqVersion EXCEPT ![p] = version]
            /\ pc' = [pc EXCEPT ![p] = "ctor_read"]
            /\ outcome' = [outcome EXCEPT ![p] =
                              [NoOutcome EXCEPT !.op = "create",
                                                !.args = <<version, configPath, dir>>]]
            /\ UNCHANGED returned
       ELSE /\ reqVersion' = [reqVersion EXCEPT ![p] = version]
            /\ pc' = [pc EXCEPT ![p] = "ctor_read"]
            /\ outcome' = [outcome EXCEPT ![p] =
                              [NoOutcome EXCEPT !.op = "create",
                                                !.args = <<version, configPath, dir>>]]
            /\ UNCHANGED <<instance, returned>>
    /\ UNCHANGED <<mutexCount, mutexQueue, manifestFile, binFile>>

\* lines 37-40 and 63: the call itself, up to its first await
GetDownloader(p, version, configPath, dir) ==
    /\ CanCall(p)
    /\ info' = [info EXCEPT ![p] = Undefined]
    /\ log' = [log EXCEPT ![p] = <<>>]
    /\ IF ~instance.set
       THEN /\ instance' = Session(version, configPath, dir)
            /\ reqVersion' = [reqVersion EXCEPT ![p] = version]
            /\ pc' = [pc EXCEPT ![p] = "ctor_read"]
            /\ outcome' = [outcome EXCEPT ![p] =
                              [NoOutcome EXCEPT !.op = "create",
                                                !.args = <<version, configPath, dir>>]]
            /\ UNCHANGED returned
       ELSE /\ reqVersion' = [reqVersion EXCEPT ![p] = NoVersion]
            /\ pc' = [pc EXCEPT ![p] = "done"]
            /\ outcome' = [outcome EXCEPT ![p] =
                              [Ok("cached") EXCEPT !.args = <<version, configPath, dir>>]]
            /\ returned' = TRUE
            /\ UNCHANGED instance
    /\ UNCHANGED <<mutexCount, mutexQueue, manifestFile, binFile>>

\* line 40 completes; line 41 up to its await
CtorRead(p) ==
    /\ At(p, "ctor_read")
    /\ LET i == _getCompilerVersionInfo(manifestFile)
           lg == Append(log[p], ReadEvent(manifestFile))
       IN  IF CtorFetchCondition(~i.defined, TRUE) # CtorFetchCondition(~i.defined, FALSE)
           THEN /\ pc' = [pc EXCEPT ![p] = "ctor_check"]
                /\ info' = [info EXCEPT ![p] = i]
                /\ log' = [log EXCEPT ![p] = lg]
                /\ UNCHANGED <<instance, returned, outcome>>
           ELSE IF CtorFetchCondition(~i.defined, FALSE)
                THEN /\ pc' = [pc EXCEPT ![p] = "ctor_fetch"]
                     /\ info' = [info EXCEPT ![p] = i]
                     /\ log' = [log EXCEPT ![p] = lg]
                     /\ UNCHANGED <<instance, returned, outcome>>
                ELSE CtorResolve(p, i, lg)
    /\ UNCHANGED <<mutexCount, mutexQueue, manifestFile, binFile, reqVersion>>

\* _shouldDownloadCompilerVersionInfo of line 41 completes
CtorCheck(p) ==
    /\ At(p, "ctor_check")
    /\ LET file == manifestFile
           should == _shouldDownloadCompilerVersionInfo(file)
           lg == Append(log[p], CheckEvent(file))
       IN  IF CtorFetchCondition(~info[p].defined, should)
           THEN /\ pc' = [pc EXCEPT ![p] = "ctor_fetch"]
                /\ log' = [log EXCEPT ![p] = lg]
                /\ UNCHANGED <<instance, returned, outcome, info>>
           ELSE CtorResolve(p, info[p], lg)
    /\ UNCHANGED <<mutexCount, mutexQueue, manifestFile, binFile, reqVersion>>

\* what a run of _downloadFunction for the manifest ends in: it throws, or it
\* returns having written the published manifest, or it returns and no file
\* is at the path when the caller looks
ManifestFetchResults ==
    {[kind |-> "threw", latest |-> 0, minVersion |-> 0, message |-> m] :
        m \in TransportMessages} \cup
    {[kind |-> "missing", latest |-> 0, minVersion |-> 0, message |-> <<>>]} \cup
    {[kind |-> "written", latest |-> l, minVersion |-> m, message |-> <<>>] :
        l \in Versions, m \in Versions}

ManifestDownloadError_KeepingCause(op, e) ==
    [Error(op, "MANIFEST_DOWNLOAD") EXCEPT !.message = e.message[1], !.cause = e.message]

\* lines 44-46 and 123-125: the error thrown in place of the one caught
ManifestDownloadError(op, e) ==
    [Error(op, "MANIFEST_DOWNLOAD") EXCEPT !.cause = e.message]

_downloadCompilerVersionInfo(r) ==
    IF r.kind = "written"
    THEN ManifestFile(r.latest, r.minVersion, 0)
    ELSE manifestFile

\* lines 43-47: the manifest download completes
CtorFetch(p) ==
    /\ At(p, "ctor_fetch")
    /\ \E r \in ManifestFetchResults :
        /\ manifestFile' = _downloadCompilerVersionInfo(r)
        /\ log' = [log EXCEPT ![p] = Append(@, "fetchManifest")]
        /\ IF r.kind = "threw"
           THEN /\ pc' = [pc EXCEPT ![p] = "done"]
                /\ outcome' = [outcome EXCEPT ![p] =
                                  [ManifestDownloadError("create", r) EXCEPT
                                      !.args = outcome[p].args]]
           ELSE /\ pc' = [pc EXCEPT ![p] = "ctor_reread"]
                /\ UNCHANGED outcome
    /\ UNCHANGED <<instance, returned, mutexCount, mutexQueue, binFile, reqVersion, info>>

\* line 47 completes
CtorReread(p) ==
    /\ At(p, "ctor_reread")
    /\ LET i == _getCompilerVersionInfo(manifestFile)
       IN  CtorResolve(p, i, Append(log[p], RereadEvent(manifestFile)))
    /\ UNCHANGED <<mutexCount, mutexQueue, manifestFile, binFile, reqVersion>>

\* ---------------------------------------------------------- downloadCompiler
MutexGrants_IgnoringPermits(p) == mutexQueue # <<>> /\ Head(mutexQueue) = p

\* _mutex.use of line 117: a waiting task is granted the mutex when a permit is
\* free and it is the oldest waiting task
MutexGrants(p) == mutexCount > 0 /\ mutexQueue # <<>> /\ Head(mutexQueue) = p

DlThrow_KeepingMutex(p, err, lg) ==
    /\ pc' = [pc EXCEPT ![p] = "done"]
    /\ outcome' = [outcome EXCEPT ![p] =
                      [err EXCEPT !.ready = outcome[p].ready, !.before = outcome[p].before]]
    /\ log' = [log EXCEPT ![p] = lg]
    /\ UNCHANGED mutexCount

\* the callback of line 117 throws: _mutex.use releases and rethrows
DlThrow(p, err, lg) ==
    /\ pc' = [pc EXCEPT ![p] = "done"]
    /\ outcome' = [outcome EXCEPT ![p] =
                      [err EXCEPT !.ready = outcome[p].ready, !.before = outcome[p].before]]
    /\ log' = [log EXCEPT ![p] = lg]
    /\ mutexCount' = mutexCount + 1

\* the callback of line 117 returns: _mutex.use releases
DlReturn(p, lg) ==
    /\ pc' = [pc EXCEPT ![p] = "done"]
    /\ outcome' = [outcome EXCEPT ![p] =
                      [Ok("download") EXCEPT !.ready = outcome[p].ready,
                                             !.before = outcome[p].before]]
    /\ log' = [log EXCEPT ![p] = lg]
    /\ mutexCount' = mutexCount + 1

DlValidate_SkipWhenReady(p, i, lg) ==
    /\ info' = [info EXCEPT ![p] = i]
    /\ IF ~i.defined
       THEN DlThrow(p, Error("download", "MANIFEST_NOT_FOUND"), lg)
       ELSE IF ~IsSemver(instance.version)
       THEN DlThrow(p, Error("download", "INVALID_VERSION"), lg)
       ELSE IF ~DlVersionAccepted(instance.version, i)
       THEN DlThrow(p, RangeError("download", instance.version, i), Append(lg, "rangeCheck"))
       ELSE IF ~VerifyResult(binFile[getCompilerPath(instance)]).error
       THEN DlReturn(p, Append(lg, "rangeCheck"))
       ELSE /\ pc' = [pc EXCEPT ![p] = "dl_fetchBinary"]
            /\ log' = [log EXCEPT ![p] = Append(lg, "rangeCheck")]
            /\ UNCHANGED <<outcome, mutexCount>>

\* lines 130-138, run synchronously once the manifest has been consulted
DlValidate(p, i, lg) ==
    /\ info' = [info EXCEPT ![p] = i]
    /\ IF ~i.defined
       THEN DlThrow(p, Error("download", "MANIFEST_NOT_FOUND"), lg)
       ELSE IF ~IsSemver(instance.version)
       THEN DlThrow(p, Error("download", "INVALID_VERSION"), lg)
       ELSE IF ~DlVersionAccepted(instance.version, i)
       THEN DlThrow(p, RangeError("download", instance.version, i), Append(lg, "rangeCheck"))
       ELSE /\ pc' = [pc EXCEPT ![p] = "dl_fetchBinary"]
            /\ log' = [log EXCEPT ![p] = Append(lg, "rangeCheck")]
            /\ UNCHANGED <<outcome, mutexCount>>

DownloadCompiler_NotWaiting(p) ==
    /\ CanCall(p)
    /\ returned
    /\ pc' = [pc EXCEPT ![p] = "dl_read"]
    /\ mutexCount' = mutexCount - 1
    /\ reqVersion' = [reqVersion EXCEPT ![p] = NoVersion]
    /\ info' = [info EXCEPT ![p] = Undefined]
    /\ log' = [log EXCEPT ![p] = <<>>]
    /\ outcome' = [outcome EXCEPT ![p] = [NoOutcome EXCEPT !.op = "download"]]
    /\ UNCHANGED <<instance, returned, mutexQueue, manifestFile, binFile>>

\* line 116-117: the call queues for the mutex
DownloadCompiler(p) ==
    /\ CanCall(p)
    /\ returned
    /\ pc' = [pc EXCEPT ![p] = "dl_wait"]
    /\ mutexQueue' = Append(mutexQueue, p)
    /\ reqVersion' = [reqVersion EXCEPT ![p] = NoVersion]
    /\ info' = [info EXCEPT ![p] = Undefined]
    /\ log' = [log EXCEPT ![p] = <<>>]
    /\ outcome' = [outcome EXCEPT ![p] = [NoOutcome EXCEPT !.op = "download"]]
    /\ UNCHANGED <<instance, returned, mutexCount, manifestFile, binFile>>

\* line 117-118: the mutex is granted and the callback starts
DlAcquire(p) ==
    /\ At(p, "dl_wait")
    /\ MutexGrants(p)
    /\ mutexCount' = mutexCount - 1
    /\ mutexQueue' = Tail(mutexQueue)
    /\ pc' = [pc EXCEPT ![p] = "dl_read"]
    /\ outcome' = [outcome EXCEPT
                      ![p].ready = ~VerifyResult(binFile[getCompilerPath(instance)]).error,
                      ![p].before = Layout(binFile)]
    /\ UNCHANGED <<instance, returned, manifestFile, binFile, reqVersion, info, log>>

\* line 118 completes; line 120 up to its await
DlRead(p) ==
    /\ At(p, "dl_read")
    /\ LET i == _getCompilerVersionInfo(manifestFile)
           lg == Append(log[p], ReadEvent(manifestFile))
       IN  IF DlFetchCondition(~i.defined, TRUE) # DlFetchCondition(~i.defined, FALSE)
           THEN /\ pc' = [pc EXCEPT ![p] = "dl_check"]
                /\ info' = [info EXCEPT ![p] = i]
                /\ log' = [log EXCEPT ![p] = lg]
                /\ UNCHANGED <<outcome, mutexCount>>
           ELSE IF DlFetchCondition(~i.defined, FALSE)
                THEN /\ pc' = [pc EXCEPT ![p] = "dl_fetchManifest"]
                     /\ info' = [info EXCEPT ![p] = i]
                     /\ log' = [log EXCEPT ![p] = lg]
                     /\ UNCHANGED <<outcome, mutexCount>>
                ELSE DlValidate(p, i, lg)
    /\ UNCHANGED <<instance, returned, mutexQueue, manifestFile, binFile, reqVersion>>

\* _shouldDownloadCompilerVersionInfo of line 120 completes
DlCheck(p) ==
    /\ At(p, "dl_check")
    /\ LET file == manifestFile
           should == _shouldDownloadCompilerVersionInfo(file)
           lg == Append(log[p], CheckEvent(file))
       IN  IF DlFetchCondition(~info[p].defined, should)
           THEN /\ pc' = [pc EXCEPT ![p] = "dl_fetchManifest"]
                /\ log' = [log EXCEPT ![p] = lg]
                /\ UNCHANGED <<outcome, mutexCount, info>>
           ELSE DlValidate(p, info[p], lg)
    /\ UNCHANGED <<instance, returned, mutexQueue, manifestFile, binFile, reqVersion>>

\* lines 122-127: the manifest download completes
DlFetchManifest(p) ==
    /\ At(p, "dl_fetchManifest")
    /\ \E r \in ManifestFetchResults :
        /\ manifestFile' = _downloadCompilerVersionInfo(r)
        /\ IF r.kind = "threw"
           THEN DlThrow(p, ManifestDownloadError("download", r),
                        Append(log[p], "fetchManifest"))
           ELSE /\ pc' = [pc EXCEPT ![p] = "dl_reread"]
                /\ log' = [log EXCEPT ![p] = Append(@, "fetchManifest")]
                /\ UNCHANGED <<outcome, mutexCount>>
    /\ UNCHANGED <<instance, returned, mutexQueue, binFile, reqVersion, info>>

\* line 127 completes
DlReread(p) ==
    /\ At(p, "dl_reread")
    /\ LET i == _getCompilerVersionInfo(manifestFile)
       IN  DlValidate(p, i, Append(log[p], RereadEvent(manifestFile)))
    /\ UNCHANGED <<instance, returned, mutexQueue, manifestFile, binFile, reqVersion>>

\* what a run of _downloadFunction for the binary ends in
BinaryFetchResults ==
    {[kind |-> "threw", status |-> 0, out |-> NoVersion, message |-> m] :
        m \in TransportMessages} \cup
    {[kind |-> "written", status |-> c.status, out |-> c.out, message |-> <<>>] :
        c \in BinaryContents}

BinaryDownloadError_LastLine(e) ==
    [Error("download", "BINARY_DOWNLOAD") EXCEPT
        !.message = e.message[Len(e.message)], !.cause = e.message]

\* line 140: new ZkSyncSolcPluginError(e.message.split('\n')[0])
BinaryDownloadError(e) ==
    [Error("download", "BINARY_DOWNLOAD") EXCEPT
        !.message = e.message[1], !.cause = e.message]

OtherDir(inst) == [inst EXCEPT !.dir = IF @ = "d1" THEN "d2" ELSE "d1"]

DlFetchBinary_BesideOld(p) ==
    /\ At(p, "dl_fetchBinary")
    /\ \E r \in BinaryFetchResults :
        IF r.kind = "threw"
        THEN /\ DlThrow(p, BinaryDownloadError(r), Append(log[p], "fetchBinary"))
             /\ UNCHANGED binFile
        ELSE /\ binFile' = [binFile EXCEPT
                    ![IF binFile[getCompilerPath(instance)].exists
                      THEN getCompilerPath(OtherDir(instance))
                      ELSE getCompilerPath(instance)] =
                                _postProcessCompilerDownload(WriteBinary(r))]
             /\ pc' = [pc EXCEPT ![p] = "dl_verify"]
             /\ log' = [log EXCEPT ![p] = Append(Append(@, "fetchBinary"), "chmod")]
             /\ UNCHANGED <<outcome, mutexCount>>
    /\ UNCHANGED <<instance, returned, mutexQueue, manifestFile, reqVersion, info>>

\* lines 138-143: the binary download completes; on success the permission
\* change of line 181 runs in the same turn
DlFetchBinary(p) ==
    /\ At(p, "dl_fetchBinary")
    /\ \E r \in BinaryFetchResults :
        IF r.kind = "threw"
        THEN /\ DlThrow(p, BinaryDownloadError(r), Append(log[p], "fetchBinary"))
             /\ UNCHANGED binFile
        ELSE /\ binFile' = [binFile EXCEPT ![getCompilerPath(instance)] =
                                _postProcessCompilerDownload(WriteBinary(r))]
             /\ pc' = [pc EXCEPT ![p] = "dl_verify"]
             /\ log' = [log EXCEPT ![p] = Append(Append(@, "fetchBinary"), "chmod")]
             /\ UNCHANGED <<outcome, mutexCount>>
    /\ UNCHANGED <<instance, returned, mutexQueue, manifestFile, reqVersion, info>>

DlVerify_RemovingCorrupt(p) ==
    /\ At(p, "dl_verify")
    /\ LET r == VerifyResult(binFile[getCompilerPath(instance)])
           lg == log[p] \o VerifyEvents(instance.version, r)
       IN  IF r.error
           THEN /\ DlThrow(p, Error("download", "BINARY_CORRUPTION"), lg)
                /\ binFile' = [binFile EXCEPT ![getCompilerPath(instance)] = NoBinary]
           ELSE /\ DlReturn(p, lg)
                /\ UNCHANGED binFile
    /\ UNCHANGED <<instance, returned, mutexQueue, manifestFile, reqVersion, info>>

\* lines 144-145: verifyCompiler runs and the callback ends
DlVerify(p) ==
    /\ At(p, "dl_verify")
    /\ LET r == VerifyResult(binFile[getCompilerPath(instance)])
           lg == log[p] \o VerifyEvents(instance.version, r)
       IN  IF r.error
           THEN DlThrow(p, Error("download", "BINARY_CORRUPTION"), lg)
           ELSE DlReturn(p, lg)
    /\ UNCHANGED <<instance, returned, mutexQueue, manifestFile, binFile, reqVersion, info>>

\* ------------------------------------------------------------ verifyCompiler
\* lines 184-200, called on its own: the body has no await
VerifyCompiler(p) ==
    /\ CanCall(p)
    /\ returned
    /\ LET r == VerifyResult(binFile[getCompilerPath(instance)])
       IN  /\ log' = [log EXCEPT ![p] = VerifyEvents(instance.version, r)]
           /\ outcome' = [outcome EXCEPT ![p] =
                            IF r.error THEN Error("verify", "BINARY_CORRUPTION")
                            ELSE Ok("verify")]
    /\ pc' = [pc EXCEPT ![p] = "done"]
    /\ reqVersion' = [reqVersion EXCEPT ![p] = NoVersion]
    /\ info' = [info EXCEPT ![p] = Undefined]
    /\ UNCHANGED <<instance, returned, mutexCount, mutexQueue, manifestFile, binFile>>

\* ------------------------------------------------------------------- getters
\* lines 84-93, called on its own: synchronous
GetCompilerPath(p) ==
    /\ CanCall(p)
    /\ returned
    /\ pc' = [pc EXCEPT ![p] = "done"]
    /\ outcome' = [outcome EXCEPT ![p] =
                      [Ok("getCompilerPath") EXCEPT !.path = getCompilerPath(instance)]]
    /\ reqVersion' = [reqVersion EXCEPT ![p] = NoVersion]
    /\ info' = [info EXCEPT ![p] = Undefined]
    /\ log' = [log EXCEPT ![p] = <<>>]
    /\ UNCHANGED <<instance, returned, mutexCount, mutexQueue, manifestFile, binFile>>

\* lines 95-97: the path is computed and pathExists is started
IsCompilerDownloaded(p) ==
    /\ CanCall(p)
    /\ returned
    /\ pc' = [pc EXCEPT ![p] = "icd_exists"]
    /\ outcome' = [outcome EXCEPT ![p] =
                      [NoOutcome EXCEPT !.op = "isCompilerDownloaded",
                                        !.path = getCompilerPath(instance)]]
    /\ reqVersion' = [reqVersion EXCEPT ![p] = NoVersion]
    /\ info' = [info EXCEPT ![p] = Undefined]
    /\ log' = [log EXCEPT ![p] = <<>>]
    /\ UNCHANGED <<instance, returned, mutexCount, mutexQueue, manifestFile, binFile>>

IcdExists_Always(p) ==
    /\ At(p, "icd_exists")
    /\ pc' = [pc EXCEPT ![p] = "done"]
    /\ outcome' = [outcome EXCEPT ![p].status = "ok", ![p].exists = TRUE]
    /\ UNCHANGED <<instance, returned, mutexCount, mutexQueue, manifestFile, binFile,
                   reqVersion, info, log>>

\* line 97: pathExists completes
IcdExists(p) ==
    /\ At(p, "icd_exists")
    /\ pc' = [pc EXCEPT ![p] = "done"]
    /\ outcome' = [outcome EXCEPT ![p].status = "ok",
                                  ![p].exists = binFile[outcome[p].path].exists]
    /\ UNCHANGED <<instance, returned, mutexCount, mutexQueue, manifestFile, binFile,
                   reqVersion, info, log>>

\* --------------------------------------------------------------- environment
\* time passes: the manifest file grows older (line 107)
Tick ==
    /\ Quiet
    /\ manifestFile.exists
    /\ manifestFile.age < MaxAge
    /\ manifestFile' = [manifestFile EXCEPT !.age = @ + 1]
    /\ UNCHANGED <<instance, returned, mutexCount, mutexQueue, binFile,
                   pc, reqVersion, info, log, outcome>>

\* The manifest cache is shared with other processes that use the compilers
\* directory: one of them refreshes it after a new release was published.
ManifestRefreshed ==
    /\ Quiet
    /\ manifestFile.exists
    /\ manifestFile.latest < MaxVersion
    /\ manifestFile' = ManifestFile(manifestFile.latest + 1, manifestFile.minVersion, 0)
    /\ UNCHANGED <<instance, returned, mutexCount, mutexQueue, binFile,
                   pc, reqVersion, info, log, outcome>>

\* The callers of Spec all name one compilers directory and the default
\* compiler source, and ask for any version.
Next ==
    \/ \E p \in Callers, v \in Requests : GetDownloader(p, v, "zksolc", "d1")
    \/ \E p \in Callers : CtorRead(p)
    \/ \E p \in Callers : CtorCheck(p)
    \/ \E p \in Callers : CtorFetch(p)
    \/ \E p \in Callers : CtorReread(p)
    \/ \E p \in Callers : DownloadCompiler(p)
    \/ \E p \in Callers : DlAcquire(p)
    \/ \E p \in Callers : DlRead(p)
    \/ \E p \in Callers : DlCheck(p)
    \/ \E p \in Callers : DlFetchManifest(p)
    \/ \E p \in Callers : DlReread(p)
    \/ \E p \in Callers : DlFetchBinary(p)
    \/ \E p \in Callers : DlVerify(p)
    \/ \E p \in Callers : VerifyCompiler(p)
    \/ \E p \in Callers : Return(p)
    \/ Tick

Spec == Init /\ [][Next]_vars

\* ------------------------------------------------ any arguments, and getters
\* The callers of ApiSpec pass any version, compiler source and compilers
\* directory to the factory and also use the getters of the session; the
\* manifest cache is fresh or absent when the process starts.
InitApi ==
    /\ Init
    /\ manifestFile.age = 0

NextApi ==
    \/ \E p \in Callers, v \in Requests, c \in ConfigPaths, d \in Dirs :
            GetDownloader(p, v, c, d)
    \/ \E p \in Callers : CtorRead(p)
    \/ \E p \in Callers : CtorCheck(p)
    \/ \E p \in Callers : CtorFetch(p)
    \/ \E p \in Callers : CtorReread(p)
    \/ \E p \in Callers : DownloadCompiler(p)
    \/ \E p \in Callers : DlAcquire(p)
    \/ \E p \in Callers : DlRead(p)
    \/ \E p \in Callers : DlCheck(p)
    \/ \E p \in Callers : DlFetchManifest(p)
    \/ \E p \in Callers : DlReread(p)
    \/ \E p \in Callers : DlFetchBinary(p)
    \/ \E p \in Callers : DlVerify(p)
    \/ \E p \in Callers : VerifyCompiler(p)
    \/ \E p \in Callers : GetCompilerPath(p)
    \/ \E p \in Callers : IsCompilerDownloaded(p)
    \/ \E p \in Callers : IcdExists(p)
    \/ \E p \in Callers : Return(p)
    \/ ManifestRefreshed

ApiSpec == InitApi /\ [][NextApi]_vars

\* ------------------------------------------------- downloads under fairness
\* A process whose session exists and has been handed to its callers: the
\* factory has run (with any requested version, and whatever it left at the
\* manifest path) and the callers go on to download and verify.
InitFair ==
    /\ \E v \in Requests :
         instance = Session(v, "zksolc", "d1")
    /\ returned = TRUE
    /\ mutexCount = 1
    /\ mutexQueue = <<>>
    /\ manifestFile \in ManifestFiles
    /\ binFile = [x \in Paths |-> NoBinary]
    /\ pc = [p \in Callers |-> "idle"]
    /\ reqVersion = [p \in Callers |-> NoVersion]
    /\ info = [p \in Callers |-> Undefined]
    /\ log = [p \in Callers |-> <<>>]
    /\ outcome = [p \in Callers |-> NoOutcome]

\* the steps of a downloadCompiler call that end an awaited operation
DlStep(p) ==
    \/ DlAcquire(p)
    \/ DlRead(p)
    \/ DlCheck(p)
    \/ DlFetchManifest(p)
    \/ DlReread(p)
    \/ DlFetchBinary(p)
    \/ DlVerify(p)

NextFair ==
    \/ \E p \in Callers : DownloadCompiler(p)
    \/ \E p \in Callers : DlStep(p)
    \/ \E p \in Callers : VerifyCompiler(p)
    \/ \E p \in Callers : Return(p)
    \/ Tick

\* Every awaited operation ends and the event loop runs every job that is
\* ready: a step of a call that is enabled again and again is taken, and a
\* finished call hands over.
Fairness ==
    \A p \in Callers : SF_vars(DlStep(p)) /\ WF_vars(Return(p))

FairSpec == InitFair /\ [][NextFair]_vars /\ Fairness

\* ------------------------------------------------------- the getters alone
\* A session made of any version, compiler source and compilers directory, in
\* the hands of callers that ask it for the compiler path.
InitPath ==
    /\ \E v \in Requests, c \in ConfigPaths, d \in Dirs : instance = Session(v, c, d)
    /\ returned = TRUE
    /\ mutexCount = 1
    /\ mutexQueue = <<>>
    /\ manifestFile = NoManifest
    /\ binFile = [x \in Paths |-> NoBinary]
    /\ pc = [p \in Callers |-> "idle"]
    /\ reqVersion = [p \in Callers |-> NoVersion]
    /\ info = [p \in Callers |-> Undefined]
    /\ log = [p \in Callers |-> <<>>]
    /\ outcome = [p \in Callers |-> NoOutcome]

NextPath ==
    \/ \E p \in Callers : GetCompilerPath(p)
    \/ \E p \in Callers : IsCompilerDownloaded(p)
    \/ \E p \in Callers : IcdExists(p)
    \/ \E p \in Callers : Return(p)

PathSpec == InitPath /\ [][NextPath]_vars

\* ==================================================================== claims
InSequence(p) ==
    pc[p] \in {"dl_read", "dl_check", "dl_fetchManifest", "dl_reread",
               "dl_fetchBinary", "dl_verify"}

Count(seq, e) == Cardinality({k \in 1..Len(seq) : seq[k] = e})

Has(seq, e) == \E k \in 1..Len(seq) : seq[k] = e

Finished(p, op) == pc[p] = "done" /\ outcome[p].op = op

\* C1: at most one downloadCompiler() caller is inside the download-and-verify
\* sequence (manifest read ... verify) at any time, and the mutex is held exactly
\* while a caller is inside: a queued caller starts its sequence only once the
\* predecessor has left its own.
C1_OneCallerInSequence ==
    /\ \A p, q \in Callers : InSequence(p) /\ InSequence(q) => p = q
    /\ mutexCount = 1 - Cardinality({p \in Callers : InSequence(p)})

C1_Witness ==
    \E p, q \in Callers :
        /\ pc[p] = "dl_fetchBinary"
        /\ pc[q] = "dl_wait"

\* C2: under FairSpec, every caller queued for the mutex eventually enters the
\* critical section and ends a call in which it ran the sequence itself (its
\* own manifest read is the first entry of its log), whatever became of the
\* call before it.
C2_QueuedCallerRuns ==
    \A p \in Callers :
        (pc[p] = "dl_wait") ~>
            (/\ Finished(p, "download")
             /\ log[p] # <<>>
             /\ Head(log[p]) \in {"readAbsent", "readFresh", "readStale"})

C2_Witness ==
    \E p, q \in Callers :
        /\ pc[p] = "dl_wait"
        /\ Finished(q, "download")
        /\ outcome[q].status = "error"
        /\ mutexCount = 1

\* C3 as stated: every manifest write, binary write, permission change and
\* verification run of the session is made by the caller inside the critical
\* section, and no two callers have such accesses under way at once.
Accessing(p) ==
    \/ pc[p] \in {"ctor_fetch", "dl_fetchManifest", "dl_fetchBinary", "dl_verify"}
    \/ Finished(p, "verify")

C3_Original ==
    /\ \A p \in Callers : Accessing(p) => InSequence(p)
    /\ \A p, q \in Callers : Accessing(p) /\ Accessing(q) => p = q

\* C3 as amended: the manifest write, binary write, permission change and
\* verification of a downloadCompiler() call happen while that call holds the
\* mutex, and no two downloadCompiler() calls have them under way at once.
DlAccessing(p) == pc[p] \in {"dl_fetchManifest", "dl_fetchBinary", "dl_verify"}

C3_DownloadAccessesSerialized ==
    \A p \in Callers :
        DlAccessing(p) =>
            /\ mutexCount = 0
            /\ \A q \in Callers : DlAccessing(q) => q = p

\* the factory's manifest fetch is under way while a downloadCompiler() call
\* inside the critical section has its own manifest fetch under way
C3_Witness ==
    \E p, q \in Callers :
        /\ pc[p] = "ctor_fetch"
        /\ pc[q] = "dl_fetchManifest"
        /\ mutexCount = 0

\* a first factory call that got as far as resolving its version against the
\* manifest in info[p]
Resolved(p) ==
    /\ Finished(p, "create")
    /\ outcome[p].kind # "MANIFEST_DOWNLOAD"
    /\ info[p].defined

\* C4: a first factory call asking for "latest" or for the manifest's latest
\* succeeds and leaves the session's version at the manifest's latest, whatever
\* minVersion is.
C4_LatestResolvesToLatest ==
    \A p \in Callers :
        (Resolved(p) /\ (reqVersion[p] = LatestAlias \/ reqVersion[p] = info[p].latest))
            => (outcome[p].status = "ok" /\ instance.version = info[p].latest)

C4_Witness ==
    \E p \in Callers :
        /\ Resolved(p)
        /\ reqVersion[p] = LatestAlias
        /\ info[p].minVersion > info[p].latest
        /\ outcome[p].status = "ok"
        /\ instance.version = info[p].latest

\* no factory call is under way
Constructed == \A q \in Callers : pc[q] \notin {"ctor_read", "ctor_check", "ctor_fetch", "ctor_reread"}

\* C5 as stated: downloadCompiler() accepts the session's version against the
\* manifest it reads whenever the factory's resolution accepts that version
\* against that manifest (here: for a session whose construction has ended
\* and whose version is a concrete version).
C5_Original ==
    \A p \in Callers :
        (/\ Finished(p, "download")
         /\ Constructed
         /\ info[p].defined
         /\ IsSemver(instance.version)
         /\ ResolveVersion(instance.version, info[p]).status = "ok")
            => outcome[p].kind # "VERSION_RANGE"

\* C6: a first factory call for a version that is not "latest", not the
\* manifest's latest and outside [minVersion, latest] fails with the range
\* error made of the requested version, minVersion and latest; a
\* downloadCompiler() call whose session version is outside the range of the
\* manifest it has read fails with the range error and fetches no binary.
OutOfRange(v, i) == v < i.minVersion \/ v > i.latest

IsRangeError(oc, v, i) ==
    /\ oc.status = "error"
    /\ oc.kind = "VERSION_RANGE"
    /\ oc.version = v
    /\ oc.minVersion = i.minVersion
    /\ oc.latest = i.latest

C6_OutOfRangeFails ==
    \A p \in Callers :
        /\ (/\ Resolved(p)
            /\ reqVersion[p] # LatestAlias
            /\ reqVersion[p] # info[p].latest
            /\ OutOfRange(reqVersion[p], info[p]))
               => (/\ IsRangeError(outcome[p], reqVersion[p], info[p])
                   /\ instance.version = reqVersion[p])
        /\ (/\ Finished(p, "download")
            /\ info[p].defined
            /\ IsSemver(instance.version)
            /\ OutOfRange(instance.version, info[p]))
               => (/\ IsRangeError(outcome[p], instance.version, info[p])
                   /\ ~Has(log[p], "fetchBinary"))

C6_Witness ==
    \E p \in Callers :
        /\ Resolved(p)
        /\ reqVersion[p] > info[p].latest
        /\ IsRangeError(outcome[p], reqVersion[p], info[p])

\* C7: a first factory call for a version strictly between minVersion and
\* latest succeeds, leaves the session's version at the requested version and
\* gives the "behind latest" advisory exactly once.
C7_PinnedVersionAccepted ==
    \A p \in Callers :
        (/\ Resolved(p)
         /\ info[p].minVersion < reqVersion[p]
         /\ reqVersion[p] < info[p].latest)
            => (/\ outcome[p].status = "ok"
                /\ outcome[p].kind = "none"
                /\ instance.version = reqVersion[p]
                /\ Count(log[p], "warnBehind") = 1)

C7_Witness ==
    \E p \in Callers :
        /\ Resolved(p)
        /\ info[p].minVersion < reqVersion[p]
        /\ reqVersion[p] < info[p].latest
        /\ outcome[p].status = "ok"
        /\ Count(log[p], "warnBehind") = 1

\* C8 as stated: a factory call or downloadCompiler() call that finds the
\* manifest file older than the cache period fetches the manifest exactly
\* once, and one that finds it not older fetches it not at all (here: for the
\* factory call, and for the downloadCompiler() calls of a session whose
\* construction has ended and whose version is a concrete version).
C8_Original ==
    \A p \in Callers :
        (\/ Finished(p, "create")
         \/ (Finished(p, "download") /\ Constructed /\ IsSemver(instance.version))) =>
            /\ (Has(log[p], "readStale") \/ Has(log[p], "checkStale"))
                  => Count(log[p], "fetchManifest") = 1
            /\ (Has(log[p], "checkFresh")
                 \/ (Finished(p, "download") /\ Has(log[p], "readFresh")))
                  => Count(log[p], "fetchManifest") = 0

\* C9: a call that finds no manifest file fetches the manifest exactly once,
\* no call fetches it twice, and a call that still finds no file after its
\* fetch fails with manifest-not-found without binary fetch, permission
\* change or verification.  (Finding no file: at the read and, in
\* downloadCompiler(), at the existence check of line 102 that follows.)
AbsentAtConsult(p) == Has(log[p], "readAbsent") /\ ~Has(log[p], "checkFresh")

StepRank(e) ==
    CASE e = "rangeCheck" -> 2
      [] e = "fetchBinary" -> 3
      [] e = "chmod" -> 4
      [] e \in {"verify", "warnMismatch"} -> 5
      [] OTHER -> 1

LastStepOf(kind) ==
    CASE kind \in {"MANIFEST_DOWNLOAD", "MANIFEST_NOT_FOUND", "INVALID_VERSION"} -> 1
      [] kind = "VERSION_RANGE" -> 2
      [] kind = "BINARY_DOWNLOAD" -> 3
      [] OTHER -> 5

C10_FixedOrderNoShortcut ==
    \A p \in Callers :
        outcome[p].op = "download" =>
            LET lg == log[p] IN
            /\ \A k \in 1..(Len(lg) - 1) : StepRank(lg[k]) <= StepRank(lg[k + 1])
            /\ \A e \in {"rangeCheck", "fetchBinary", "chmod", "verify"} : Count(lg, e) <= 1
            /\ Has(lg, "rangeCheck") => StepRank(lg[1]) = 1
            /\ Has(lg, "fetchBinary") => Has(lg, "rangeCheck")
            /\ Has(lg, "chmod") => Has(lg, "fetchBinary")
            /\ Has(lg, "verify") => Has(lg, "chmod")
            /\ (pc[p] = "done" /\ outcome[p].status = "ok") =>
                  \A e \in {"rangeCheck", "fetchBinary", "chmod", "verify"} : Count(lg, e) = 1
            /\ (pc[p] = "done" /\ outcome[p].status = "error") =>
                  \A k \in 1..Len(lg) : StepRank(lg[k]) <= LastStepOf(outcome[p].kind)

C10_Witness ==
    \E p \in Callers :
        /\ Finished(p, "download")
        /\ outcome[p].status = "ok"
        /\ outcome[p].ready
        /\ Count(log[p], "fetchBinary") = 1
        /\ Count(log[p], "chmod") = 1
        /\ Count(log[p], "verify") = 1

\* C11: a successful downloadCompiler() call leaves one binary on disk, at
\* getCompilerPath(), with the permission bits 0o755; a successful call that
\* started with the binary of an earlier successful call in place leaves the
\* binaries on disk, paths and permission bits, as they were when it started.
C11_SecondDownloadKeepsLayout ==
    \A p \in Callers :
        (Finished(p, "download") /\ outcome[p].status = "ok") =>
            /\ Layout(binFile) = {<<getCompilerPath(instance), "rwxr-xr-x">>}
            /\ outcome[p].ready => Layout(binFile) = outcome[p].before

C11_Witness ==
    \E p \in Callers :
        /\ Finished(p, "download")
        /\ outcome[p].status = "ok"
        /\ outcome[p].ready
        /\ outcome[p].before = {<<getCompilerPath(instance), "rwxr-xr-x">>}
        /\ Layout(binFile) = outcome[p].before

\* C12: a verification, run on its own or as the last step of
\* downloadCompiler(), fails with the binary-corruption error exactly when the
\* binary cannot be run, exits with a non-zero status or prints no version;
\* otherwise it succeeds, with one mismatch advisory when the version printed
\* differs from the session's version and none when it is equal.  A
\* downloadCompiler() call that gave the advisory has succeeded.
Verified(p) ==
    \/ Finished(p, "verify")
    \/ (Finished(p, "download") /\ Has(log[p], "verify"))

Unusable(file) ==
    \/ ~file.exists
    \/ file.mode # "rwxr-xr-x"
    \/ file.status # 0
    \/ file.out \notin Versions

C12_VerifyOutcome ==
    \A p \in Callers :
        Verified(p) =>
            LET file == binFile[getCompilerPath(instance)] IN
            /\ Unusable(file) <=>
                  (outcome[p].status = "error" /\ outcome[p].kind = "BINARY_CORRUPTION")
            /\ ~Unusable(file) =>
                  /\ outcome[p].status = "ok"
                  /\ Count(log[p], "warnMismatch") =
                        (IF file.out # instance.version THEN 1 ELSE 0)
            /\ Unusable(file) => ~Has(log[p], "warnMismatch")

C12_Witness ==
    \E p \in Callers :
        /\ Finished(p, "download")
        /\ outcome[p].status = "ok"
        /\ Count(log[p], "warnMismatch") = 1
        /\ binFile[getCompilerPath(instance)].out # instance.version
        /\ binFile[getCompilerPath(instance)].status = 0

\* C13: a downloadCompiler() call whose binary fetch threw fails with an error
\* whose message is the first line of the message of the error thrown by the
\* fetch; the call has fetched once and has neither changed permissions nor
\* verified.
BinaryFetchThrew(p) ==
    /\ Finished(p, "download")
    /\ Has(log[p], "fetchBinary")
    /\ outcome[p].cause # <<>>

C13_BinaryFetchFailure ==
    \A p \in Callers :
        BinaryFetchThrew(p) =>
            /\ outcome[p].status = "error"
            /\ outcome[p].message = Head(outcome[p].cause)
            /\ Count(log[p], "fetchBinary") = 1
            /\ ~Has(log[p], "chmod")
            /\ ~Has(log[p], "verify")

C13_Witness ==
    \E p \in Callers :
        /\ BinaryFetchThrew(p)
        /\ Len(outcome[p].cause) = 2
        /\ outcome[p].message = "ECONNRESET"

\* C14: a factory call or downloadCompiler() call whose manifest fetch threw
\* fails with the manifest-download-failure error, whose message is the
\* constant of that error whatever the fetch threw; the call has resolved no
\* version (a factory call leaves the session's version as requested) and has
\* neither checked the range, fetched a binary, changed permissions nor
\* verified.
ManifestFetchThrew(p) ==
    /\ Finished(p, "create") \/ Finished(p, "download")
    /\ Has(log[p], "fetchManifest")
    /\ ~Has(log[p], "fetchBinary")
    /\ outcome[p].cause # <<>>

C14_ManifestFetchFailure ==
    \A p \in Callers :
        ManifestFetchThrew(p) =>
            /\ outcome[p].status = "error"
            /\ outcome[p].kind = "MANIFEST_DOWNLOAD"
            /\ outcome[p].message = "MANIFEST_DOWNLOAD"
            /\ \A e \in {"rereadPresent", "rereadAbsent", "warnBehind", "rangeCheck",
                          "chmod", "verify"} : ~Has(log[p], e)
            /\ Finished(p, "create") => instance.version = reqVersion[p]

C14_Witness ==
    \E p, q \in Callers :
        /\ ManifestFetchThrew(p)
        /\ Finished(p, "download")
        /\ Len(outcome[p].cause) = 2
        /\ pc[q] = "idle"

\* C15: isCompilerDownloaded() returns whether a file exists at the path that
\* getCompilerPath() gave it for the session's version when it was called
\* (the session's version now, or "latest" where the factory has narrowed it
\* since); getCompilerPath() returns that path; and no step of either changes
\* the session, the manifest file, the binaries or the mutex, whether or not
\* the version is resolved and whether or not a download is in flight.
Unnarrowed(inst) == [inst EXCEPT !.version = LatestAlias]

Getting(p) == outcome[p].op \in {"isCompilerDownloaded", "getCompilerPath"}

C15_Result ==
    \A p \in Callers :
        /\ Finished(p, "isCompilerDownloaded") =>
              /\ outcome[p].exists <=> binFile[outcome[p].path].exists
              /\ outcome[p].path \in {getCompilerPath(instance),
                                       getCompilerPath(Unnarrowed(instance))}
        /\ Finished(p, "getCompilerPath") =>
              outcome[p].path = getCompilerPath(instance)

C15_Frame ==
    \A p \in Callers :
        (Getting(p)' /\ pc'[p] # pc[p]) =>
            UNCHANGED <<instance, manifestFile, binFile, mutexCount, mutexQueue>>

C15_GettersPure == [](C15_Result) /\ [][C15_Frame]_vars

C15_Witness ==
    \E p, q \in Callers :
        /\ Finished(p, "isCompilerDownloaded")
        /\ outcome[p].exists
        /\ pc[q] = "dl_verify"

\* C16: the path getCompilerPath() returns is made of the session's compilers
\* directory, version and compiler source only: for a source that is no URL it
\* is <dir>/zksolc/zksolc-v<version>, for a URL it is that followed by a dash
\* and the salt of the URL; the path for a URL differs from the path for the
\* default source with the same directory and version; and two computations
\* on one session give one path.
CanonicalPath(inst) == inst.dir \o "/zksolc/zksolc-v" \o VersionString(inst.version)

C16_PathDeterministic ==
    \A p \in Callers :
        Finished(p, "getCompilerPath") =>
            /\ ~isURL(instance.configPath) =>
                  outcome[p].path = CanonicalPath(instance)
            /\ isURL(instance.configPath) =>
                  /\ outcome[p].path =
                        CanonicalPath(instance) \o "-" \o saltFromUrl(instance.configPath)
                  /\ outcome[p].path # getCompilerPath([instance EXCEPT !.configPath = "zksolc"])
            /\ \A q \in Callers :
                  pc[q] = "icd_exists" => outcome[q].path = outcome[p].path

C16_Witness ==
    \E p, q \in Callers :
        /\ Finished(p, "getCompilerPath")
        /\ isURL(instance.configPath)
        /\ pc[q] = "icd_exists"
        /\ outcome[q].path = outcome[p].path

\* C17: once the session exists, its version, compiler source and compilers
\* directory change in one kind of step only: the first factory call ends its
\* resolution successfully, having been asked for "latest" or for the
\* manifest's latest, and sets the version to the manifest's latest.  Every
\* step of downloadCompiler(), verifyCompiler(), isCompilerDownloaded(),
\* getCompilerPath() and of a later factory call leaves the three unchanged,
\* whatever the manifest on disk has become.
Narrowing(p) ==
    /\ pc[p] \in {"ctor_read", "ctor_check", "ctor_reread"}
    /\ pc'[p] = "done"
    /\ outcome'[p].status = "ok"
    /\ reqVersion[p] \in {LatestAlias, info'[p].latest}
    /\ instance' = [instance EXCEPT !.version = info'[p].latest]

C17_Frame ==
    (instance.set /\ instance' # instance) => \E p \in Callers : Narrowing(p)

C17_VersionChangedOnlyByResolution == [][C17_Frame]_vars

\* a download has succeeded against a manifest whose latest is newer than the
\* session's version
C17_Witness ==
    \E p \in Callers :
        /\ Finished(p, "download")
        /\ Constructed
        /\ outcome[p].status = "ok"
        /\ manifestFile.age = 0
        /\ info[p].latest > instance.version
        /\ info[p].minVersion = instance.version

\* C18: a factory call made when the session exists ends at once and hands
\* over that session, whatever version, compiler source and compilers
\* directory it was given: it reads and fetches no manifest and leaves the
\* session's fields and the manifest file as they are.
C18_Frame ==
    \A p \in Callers :
        (instance.set /\ pc[p] = "idle" /\ outcome'[p].op \in {"create", "cached"}) =>
            /\ pc'[p] = "done"
            /\ outcome'[p].op = "cached"
            /\ outcome'[p].status = "ok"
            /\ log'[p] = <<>>
            /\ returned'
            /\ instance' = instance
            /\ manifestFile' = manifestFile

C18_OneSession == [][C18_Frame]_vars

C18_Witness ==
    \E p \in Callers :
        /\ Finished(p, "cached")
        /\ Constructed
        /\ outcome[p].args[1] # instance.version
        /\ outcome[p].args[2] # instance.configPath
        /\ outcome[p].args[3] # instance.dir

\* C19 as stated: a factory call made when no construction is under way hands
\* over a session whose version is a concrete version, never the literal
\* "latest".
C19_Original ==
    \A p \in Callers :
        (/\ Finished(p, "create") \/ Finished(p, "cached")
         /\ outcome[p].status = "ok"
         /\ Constructed)
            => IsSemver(instance.version)

\* C20: a downloadCompiler() call that failed with the binary-corruption error
\* has left the file it fetched at getCompilerPath(), with the permission bits
\* 0o755; and isCompilerDownloaded() answers true for a file that is there,
\* whether or not it passes verification.
C20_CorruptBinaryStays ==
    \A p \in Callers :
        /\ (Finished(p, "download") /\ outcome[p].kind = "BINARY_CORRUPTION") =>
              /\ binFile[getCompilerPath(instance)].exists
              /\ binFile[getCompilerPath(instance)].mode = "rwxr-xr-x"
              /\ Has(log[p], "fetchBinary")
        /\ (Finished(p, "isCompilerDownloaded") /\ binFile[outcome[p].path].exists) =>
              outcome[p].exists

\* isCompilerDownloaded() has answered true for the binary of the session, no
\* download is under way or waiting, and the binary does not pass verification
C20_Witness ==
    \E p \in Callers :
        /\ Finished(p, "isCompilerDownloaded")
        /\ outcome[p].exists
        /\ outcome[p].path = getCompilerPath(instance)
        /\ mutexCount = 1
        /\ mutexQueue = <<>>
        /\ VerifyResult(binFile[outcome[p].path]).error

=============================================================================
